---- MODULE Spec2Model ----
(***************************************************************************)
(* Model of the FastAPI service of src/main.py: the /augment_payload/      *)
(* pipeline (normalise concentrations, CAS -> CID lookup, property lookup, *)
(* record assembly) and the /payload_summary/ preview endpoint.            *)
(*                                                                         *)
(* PubChem and the Git host are black boxes: every response they can give  *)
(* is a nondeterministic input of the action that receives it.  Python     *)
(* floats are modelled as exact rationals <<num, den>> in lowest terms;    *)
(* rounding is not modelled.  Writes to api.log are write-only and are     *)
(* left out of the state.                                                  *)
(***************************************************************************)
EXTENDS Integers, Sequences, FiniteSets, TLC

\* ---------------------------------------------------------------- bounds
MaxInputs == 2      \* longest request body (number of compounds)
MaxDocLen == 6      \* longest JSON list served to /payload_summary/

PreviewLen == 5     \* json_data[:5]

CasNumbers == {"50-00-0", "64-17-5"}
Quantities == {0, 1, 2}

\* ---------------------------------------------------------- Python values
None   == <<"none">>
Str(s) == <<"str", s>>
Num(n) == <<"num", n>>

\* CIDs PubChem can answer with
Cids == {Num(712)}

\* Python truthiness of a JSON scalar, as used by the `or` operator.
Truthy(v) == v # None /\ v # Str("") /\ v # Num(0)

\* a or b
PyOr(a, b) == IF Truthy(a) THEN a ELSE b

\* ------------------------------------------------------------- rationals
Abs(x) == IF x < 0 THEN -x ELSE x

RECURSIVE Gcd(_, _)
Gcd(a, b) == IF b = 0 THEN a ELSE Gcd(b, a % b)

\* The rational n/d (d # 0) in lowest terms with a positive denominator.
Rat(n, d) ==
    LET g == Gcd(Abs(n), Abs(d))
        s == IF d < 0 THEN -1 ELSE 1
    IN  <<(s * n) \div g, (s * d) \div g>>

RatAdd(a, b) == Rat(a[1] * b[2] + b[1] * a[2], a[2] * b[2])
RatDiv(a, b) == Rat(a[1] * b[2], a[2] * b[1])
RatMul(a, b) == Rat(a[1] * b[1], a[2] * b[2])
RatZero == <<0, 1>>
FromInt(n) == <<n, 1>>

\* ------------------------------------------------------------ the request
\* class Compound(BaseModel): cas: str, conc: float
Compound == [cas : CasNumbers, conc : {FromInt(q) : q \in Quantities}]

RECURSIVE SeqsUpTo(_, _)
SeqsUpTo(S, n) ==
    IF n = 0 THEN {<<>>}
    ELSE LET shorter == SeqsUpTo(S, n - 1)
         IN  shorter \cup {Append(s, x) : s \in {t \in shorter : Len(t) = n - 1}, x \in S}

Requests == SeqsUpTo(Compound, MaxInputs)

RECURSIVE SumConcButLast(_)
SumConcButLast(cs) ==
    IF Len(cs) <= 1 THEN RatZero
    ELSE RatAdd(cs[1].conc, SumConcButLast(Tail(cs)))

\* sum(compound.conc for compound in compounds)
RECURSIVE SumConc(_)
SumConc(cs) ==
    IF cs = <<>> THEN RatZero
    ELSE RatAdd(cs[1].conc, SumConc(Tail(cs)))

\* (compound.conc / total_conc) * 100 ; the caller guarantees total # 0
Normalized(conc, total) == RatMul(RatDiv(conc, total), FromInt(100))

DivisionRaisesOnZeroTotal(cs, total) == total = RatZero
\* the division of line 145 is executed, and raises ZeroDivisionError,
\* only when the loop body runs at least once with a zero total
DivisionRaises(cs, total) == Len(cs) > 0 /\ total = RatZero

NormalizeAll(cs, total) ==
    [i \in DOMAIN cs |-> [cas |-> cs[i].cas, conc |-> Normalized(cs[i].conc, total)]]

\* ------------------------------------------------------ upstream responses
\* Body of a 2xx answer to .../compound/name/{cas}/cids/JSON.
\*   hasList: the key 'IdentifierList' is present
\*   hasCID : the key 'CID' is present inside it;   CID: its value (a list)
NameBodies ==
    {[hasList |-> FALSE, hasCID |-> FALSE, CID |-> <<>>],
     [hasList |-> TRUE,  hasCID |-> FALSE, CID |-> <<>>],
     [hasList |-> TRUE,  hasCID |-> TRUE,  CID |-> <<>>]}
    \cup {[hasList |-> TRUE, hasCID |-> TRUE, CID |-> <<c>>] : c \in Cids}

CidListOf(body) ==
    IF body.hasList /\ body.hasCID THEN body.CID ELSE <<None>>

\* cid_data.get('IdentifierList', {}).get('CID', [None])[0]
CidIndexRaises(body) == CidListOf(body) = <<>>
FirstCid(body) == CidListOf(body)[1]

PropertyNames ==
    {"CanonicalSMILES", "IsomericSMILES", "TPSA", "MolecularWeight",
     "XLogP", "HBondAcceptorCount", "Complexity"}

\* Property bags PubChem can serve; an omitted key reads as None (dict.get).
FullProps ==
    [CanonicalSMILES |-> Str("C=O"), IsomericSMILES |-> Str("[13C]=O"),
     TPSA |-> Num(17), MolecularWeight |-> Num(30), XLogP |-> Num(3),
     HBondAcceptorCount |-> Num(1), Complexity |-> Num(2)]

NoProps == [f \in PropertyNames |-> None]

Omit(p, f) == [p EXCEPT ![f] = None]

PropertyBags ==
    {FullProps, NoProps}
    \cup {Omit(FullProps, f) :
             f \in {"CanonicalSMILES", "IsomericSMILES", "MolecularWeight", "XLogP"}}
    \cup {Omit(Omit(FullProps, "CanonicalSMILES"), "IsomericSMILES")}
    \cup {[FullProps EXCEPT !.CanonicalSMILES = Str("")],
          [Omit(FullProps, "IsomericSMILES") EXCEPT !.CanonicalSMILES = Str("")]}
    \cup {[FullProps EXCEPT !.TPSA = Num(0), !.XLogP = Num(0),
                            !.HBondAcceptorCount = Num(0), !.Complexity = Num(0)]}

\* Body of a 2xx answer to .../compound/cid/{cid}/property/.../JSON.
\*   hasTable: 'PropertyTable' and its 'Properties' key are present
\*   Properties: the list under that key
PropBodies ==
    {[hasTable |-> FALSE, Properties |-> <<>>],
     [hasTable |-> TRUE,  Properties |-> <<>>]}
    \cup {[hasTable |-> TRUE, Properties |-> <<p>>] : p \in PropertyBags}

\* What get_chemical_data returns: the body, or {"error": ...} on HTTPStatusError.
ErrorDict == [hasTable |-> FALSE, Properties |-> <<>>]

PropertiesListOf(data) == IF data.hasTable THEN data.Properties ELSE <<NoProps>>

\* chemical_data.get('PropertyTable', {}).get('Properties', [{}])[0]
PropsIndexRaises(data) == PropertiesListOf(data) = <<>>
FirstProperties(data) == PropertiesListOf(data)[1]

AugmentedRecordIsomericFirst(compound, properties) ==
    [cas |-> compound.cas,
     conc |-> compound.conc,
     smiles |-> PyOr(properties.IsomericSMILES, properties.CanonicalSMILES),
     polarSurfaceArea |-> properties.TPSA,
     molecularWeight |-> properties.MolecularWeight,
     logP |-> properties.XLogP,
     hydrogenBondAcceptor |-> properties.HBondAcceptorCount,
     compoundComplexity |-> properties.Complexity]

AugmentedRecordFalsyAsNull(compound, properties) ==
    [cas |-> compound.cas,
     conc |-> compound.conc,
     smiles |-> PyOr(properties.CanonicalSMILES, properties.IsomericSMILES),
     polarSurfaceArea |-> PyOr(properties.TPSA, None),
     molecularWeight |-> PyOr(properties.MolecularWeight, None),
     logP |-> PyOr(properties.XLogP, None),
     hydrogenBondAcceptor |-> PyOr(properties.HBondAcceptorCount, None),
     compoundComplexity |-> PyOr(properties.Complexity, None)]

\* the dict appended to augmented_data
AugmentedRecord(compound, properties) ==
    [cas |-> compound.cas,
     conc |-> compound.conc,
     smiles |-> PyOr(properties.CanonicalSMILES, properties.IsomericSMILES),
     polarSurfaceArea |-> properties.TPSA,
     molecularWeight |-> properties.MolecularWeight,
     logP |-> properties.XLogP,
     hydrogenBondAcceptor |-> properties.HBondAcceptorCount,
     compoundComplexity |-> properties.Complexity]

\* Documents /payload_summary/ can be handed: a JSON list of n items
\* (the items are numbered), or a JSON object.
ListDoc(n) == [isList |-> TRUE, items |-> [i \in 1 .. n |-> i]]
DictDoc == [isList |-> FALSE, items |-> <<1, 2>>]
Documents == {ListDoc(n) : n \in 0 .. MaxDocLen} \cup {DictDoc}

Min(a, b) == IF a < b THEN a ELSE b

\* json_data[:5]
Preview(items) == SubSeq(items, 1, Min(PreviewLen, Len(items)))

\* ------------------------------------------------------------- exceptions
\* str(e) of the exceptions a handler can see.
ExcText(kind) ==
    CASE kind = "HTTPStatusError"   -> "Client error '404 Not Found' for url"
      [] kind = "ConnectError"      -> "All connection attempts failed"
      [] kind = "ZeroDivisionError" -> "float division by zero"
      [] kind = "IndexError"        -> "list index out of range"
      [] kind = "TypeError"         -> "unhashable type: 'slice'"

ExcKinds == {"HTTPStatusError", "ConnectError", "ZeroDivisionError", "IndexError", "TypeError"}

NoResponse == [status |-> 0, body |-> <<>>, detail |-> <<>>]

\* raise HTTPException(status_code=500, detail="Internal Server Error")
AugmentFailure(kind) ==
    [status |-> 500, body |-> <<>>, detail |-> <<"Internal Server Error">>]

\* raise HTTPException(status_code=404, detail=f"Error : {str(e)}")
SummaryFailure(kind) ==
    [status |-> 404, body |-> <<>>, detail |-> <<"Error : ", ExcText(kind)>>]

PrependRecord(data, rec) == <<rec>> \o data
\* augmented_data.append({...})
AppendRecord(data, rec) == Append(data, rec)

RetrySameIndex(i) == i
\* `continue`, or falling off the end of the loop body: the next compound
NextIndex(i) == i + 1

\* ------------------------------------------------------------------ state
VARIABLES
    handler,         \* the endpoint function serving the current request
    pc,              \* where the running handler is suspended
    compounds,       \* the request's list; conc is overwritten in place
    total_conc,      \* local of augment_payload
    idx,             \* position of the `for compound in compounds` loop (1-based)
    cid,             \* local of augment_payload (Unset while unbound)
    properties,      \* local of augment_payload: <<>> while unbound, else <<dict>>
    augmented_data,  \* local of augment_payload
    response,        \* what the last finished handler sent back
    original,        \* history: the request body as received
    source,          \* history: input indices a record was assembled for, in order
    calls,           \* history: upstream calls issued, in order
    nameOutcome,     \* history: per input, how its name lookup ended
    propOutcome      \* history: per input, how its property lookup ended

vars == <<handler, pc, compounds, total_conc, idx, cid, properties, augmented_data,
          response, original, source, calls, nameOutcome, propOutcome>>

locals == <<total_conc, idx, cid, properties, augmented_data>>
history == <<handler, original, source, calls, nameOutcome, propOutcome>>

Unset == <<"unset">>

Init ==
    /\ handler = "none"
    /\ pc = "idle"
    /\ compounds = <<>>
    /\ total_conc = RatZero
    /\ idx = 1
    /\ cid = Unset
    /\ properties = <<>>
    /\ augmented_data = <<>>
    /\ response = NoResponse
    /\ original = <<>>
    /\ source = <<>>
    /\ calls = <<>>
    /\ nameOutcome = <<>>
    /\ propOutcome = <<>>

Fresh(cs) ==
    /\ compounds' = cs
    /\ total_conc' = RatZero
    /\ idx' = 1
    /\ cid' = Unset
    /\ properties' = <<>>
    /\ augmented_data' = <<>>
    /\ response' = NoResponse
    /\ original' = cs
    /\ source' = <<>>
    /\ nameOutcome' = [i \in DOMAIN cs |-> "none"]
    /\ propOutcome' = [i \in DOMAIN cs |-> "none"]

\* the except clause of augment_payload
Abort(kind) ==
    /\ response' = AugmentFailure(kind)
    /\ pc' = "responded"

\* ---------------------------------------------------- POST /augment_payload/
ReceiveAugment(cs) ==
    /\ pc = "idle"
    /\ handler' = "augment_payload"
    /\ Fresh(cs)
    /\ calls' = <<>>
    /\ pc' = "normalize"

\* lines 143-147: no await in between, so one step
Normalize ==
    /\ pc = "normalize"
    /\ LET total == SumConc(compounds) IN
        /\ total_conc' = total
        /\ IF DivisionRaises(compounds, total)
           THEN /\ Abort("ZeroDivisionError")
                /\ UNCHANGED <<compounds, idx, augmented_data>>
           ELSE /\ compounds' = NormalizeAll(compounds, total)
                /\ augmented_data' = <<>>
                /\ idx' = 1
                /\ pc' = "loop"
                /\ UNCHANGED response
    /\ UNCHANGED <<cid, properties, history>>

\* the for loop is exhausted: return augmented_data
ReturnAugmented ==
    /\ pc = "loop"
    /\ idx > Len(compounds)
    /\ response' = [status |-> 200, body |-> augmented_data, detail |-> <<>>]
    /\ pc' = "responded"
    /\ UNCHANGED <<compounds, locals, history>>

\* await fetch_data(.../compound/name/{compound.cas}/cids/JSON)
IssueNameLookup ==
    /\ pc = "loop"
    /\ idx <= Len(compounds)
    /\ calls' = Append(calls, <<"name", idx>>)
    /\ pc' = "name_wait"
    /\ UNCHANGED <<compounds, locals, response, handler, original, source, nameOutcome, propOutcome>>

\* raise_for_status() raised: except httpx.HTTPStatusError -> warning, continue
NameLookupStatusError ==
    /\ pc = "name_wait"
    /\ nameOutcome' = [nameOutcome EXCEPT ![idx] = "status"]
    /\ idx' = NextIndex(idx)
    /\ pc' = "loop"
    /\ UNCHANGED <<compounds, total_conc, cid, properties, augmented_data, response,
                   handler, original, source, calls, propOutcome>>

\* client.get raised a transport error: not an HTTPStatusError, so it reaches
\* the outer except
NameLookupTransportError ==
    /\ pc = "name_wait"
    /\ nameOutcome' = [nameOutcome EXCEPT ![idx] = "transport"]
    /\ Abort("ConnectError")
    /\ UNCHANGED <<compounds, locals, handler, original, source, calls, propOutcome>>

NameOutcomeOf(body) ==
    IF CidListOf(body) = <<>> \/ CidListOf(body) = <<None>> THEN "nocid" ELSE "ok"

\* a 2xx answer: line 153 picks the first CID, or raises IndexError on []
NameLookupAnswer(body) ==
    /\ pc = "name_wait"
    /\ nameOutcome' = [nameOutcome EXCEPT ![idx] = NameOutcomeOf(body)]
    /\ IF CidIndexRaises(body)
       THEN /\ Abort("IndexError")
            /\ UNCHANGED cid
       ELSE /\ cid' = FirstCid(body)
            /\ pc' = "prop_call"
            /\ UNCHANGED response
    /\ UNCHANGED <<compounds, total_conc, idx, properties, augmented_data,
                   handler, original, source, calls, propOutcome>>

\* get_chemical_data(cid): await fetch_data(.../compound/cid/{cid}/property/...)
IssuePropertyLookup ==
    /\ pc = "prop_call"
    /\ calls' = Append(calls, <<"prop", idx>>)
    /\ pc' = "prop_wait"
    /\ UNCHANGED <<compounds, locals, response, handler, original, source, nameOutcome, propOutcome>>

\* lines 160-177 for the dict get_chemical_data returned
Assemble(chemical_data) ==
    IF PropsIndexRaises(chemical_data)
    THEN /\ Abort("IndexError")
         /\ UNCHANGED <<idx, properties, augmented_data, source>>
    ELSE /\ properties' = <<FirstProperties(chemical_data)>>
         /\ augmented_data' =
                AppendRecord(augmented_data,
                             AugmentedRecord(compounds[idx], FirstProperties(chemical_data)))
         /\ source' = Append(source, idx)
         /\ idx' = NextIndex(idx)
         /\ pc' = "loop"
         /\ UNCHANGED response

\* get_chemical_data caught HTTPStatusError and returned {"error": ...}
PropertyLookupStatusError ==
    /\ pc = "prop_wait"
    /\ propOutcome' = [propOutcome EXCEPT ![idx] = "status"]
    /\ Assemble(ErrorDict)
    /\ UNCHANGED <<compounds, total_conc, cid, handler, original, calls, nameOutcome>>

\* a transport error passes through get_chemical_data to the outer except
PropertyLookupTransportError ==
    /\ pc = "prop_wait"
    /\ propOutcome' = [propOutcome EXCEPT ![idx] = "transport"]
    /\ Abort("ConnectError")
    /\ UNCHANGED <<compounds, locals, handler, original, source, calls, nameOutcome>>

PropOutcomeOf(body) ==
    IF ~body.hasTable THEN "notable"
    ELSE IF body.Properties = <<>> THEN "empty" ELSE "ok"

\* a 2xx answer; the URL built from cid None names no compound, so only a
\* resolved cid can be answered with a property table
PropertyLookupAnswer(body) ==
    /\ pc = "prop_wait"
    /\ cid # None
    /\ propOutcome' = [propOutcome EXCEPT ![idx] = PropOutcomeOf(body)]
    /\ Assemble(body)
    /\ UNCHANGED <<compounds, total_conc, cid, handler, original, calls, nameOutcome>>

\* ----------------------------------------------------- GET /payload_summary/
ReceiveSummary ==
    /\ pc = "idle"
    /\ handler' = "get_json_data_summary"
    /\ Fresh(<<>>)
    /\ calls' = <<<<"doc", 0>>>>
    /\ pc' = "summary_wait"

\* fetch_data(git_link) raised: except Exception -> HTTPException(404, ...)
SummaryFetchError(kind) ==
    /\ pc = "summary_wait"
    /\ response' = SummaryFailure(kind)
    /\ pc' = "responded"
    /\ UNCHANGED <<compounds, locals, history>>

\* fetch_data(git_link) returned json_data
SummaryAnswer(doc) ==
    /\ pc = "summary_wait"
    /\ response' =
         IF doc.isList
         THEN [status |-> 200,
               body |-> <<[total_items |-> Len(doc.items), preview |-> Preview(doc.items)]>>,
               detail |-> <<>>]
         ELSE SummaryFailure("TypeError")
    /\ pc' = "responded"
    /\ UNCHANGED <<compounds, locals, history>>

\* the response is on the wire and the handler's frame is gone; the server
\* waits for the next request
Finish ==
    /\ pc = "responded"
    /\ handler' = "none"
    /\ Fresh(<<>>)
    /\ calls' = <<>>
    /\ pc' = "idle"

Next ==
    \/ \E cs \in Requests : ReceiveAugment(cs)
    \/ Normalize
    \/ ReturnAugmented
    \/ IssueNameLookup
    \/ NameLookupStatusError
    \/ NameLookupTransportError
    \/ \E body \in NameBodies : NameLookupAnswer(body)
    \/ IssuePropertyLookup
    \/ PropertyLookupStatusError
    \/ PropertyLookupTransportError
    \/ \E body \in PropBodies : PropertyLookupAnswer(body)
    \/ ReceiveSummary
    \/ \E kind \in {"HTTPStatusError", "ConnectError"} : SummaryFetchError(kind)
    \/ \E doc \in Documents : SummaryAnswer(doc)
    \/ Finish

Spec == Init /\ [][Next]_vars

\* ================================================================= claims
Emitted(i) == \E k \in DOMAIN source : source[k] = i
Augmenting == handler = "augment_payload"
Summarising == handler = "get_json_data_summary"
Responded == pc = "responded"
Failed == response.status >= 400
IsClientError == response.status \in 400 .. 499
IsServerError == response.status \in 500 .. 599

\* the request's total as the client sent it (request quantities are integers)
RECURSIVE QuantityTotal(_, _)
QuantityTotal(cs, n) == IF n = 0 THEN 0 ELSE cs[n].conc[1] + QuantityTotal(cs, n - 1)
OriginalTotal == QuantityTotal(original, Len(original))

LastRecord == augmented_data[Len(augmented_data)]
\* the property bag the last record was assembled from
Bag == properties[1]

\* C1: an input whose name lookup failed (non-success status, transport
\* error, or an answer with an empty or missing CID list) gets no output
\* record, and the request does not fail because of it.
C1_LookupFailureSkipsInput ==
    \A i \in DOMAIN nameOutcome :
        nameOutcome[i] \in {"status", "transport", "nocid"} =>
            ~Emitted(i) /\ ~Failed

\* C2: an input whose CID resolved but whose property lookup failed gets no
\* output record, and processing goes on (the request does not fail).
C2_PropertyFailureSkipsInput ==
    \A i \in DOMAIN propOutcome :
        (nameOutcome[i] = "ok" /\ propOutcome[i] \in {"status", "transport"}) =>
            ~Emitted(i) /\ ~Failed

\* C3: a non-empty request whose quantities sum to 0 is answered with a
\* client error, no output records and no upstream call.
C3_ZeroTotalIsClientError ==
    (Augmenting /\ Responded /\ original # <<>> /\ OriginalTotal = 0) =>
        IsClientError /\ response.body = <<>> /\ calls = <<>>

\* C4: every assembled record carries conc = quantity / total * 100, where
\* quantity is its own input's original quantity and total is the sum over
\* ALL inputs of the request, skipped ones included; a successful response
\* returns exactly these records.
C4_NormalizeThenFilter ==
    Augmenting =>
        /\ Len(augmented_data) = Len(source)
        /\ \A k \in DOMAIN augmented_data :
              LET x == augmented_data[k].conc
                  q == original[source[k]].conc[1]
              IN  /\ OriginalTotal # 0
                  /\ x[2] > 0
                  /\ x[1] * OriginalTotal = 100 * q * x[2]
        /\ (Responded /\ response.status = 200) => response.body = augmented_data

C4_Witness ==
    /\ Augmenting /\ Responded /\ response.status = 200
    /\ Len(original) = 2
    /\ nameOutcome[1] = "status"
    /\ Len(response.body) = 1
    /\ response.body[1].conc = <<100, 3>>

StrictlyIncreasing(seq) ==
    \A a, b \in DOMAIN seq : a < b => seq[a] < seq[b]

\* C5: the output is an order-preserving subsequence of the inputs, at most
\* one record per input, and exactly one per input (duplicates included)
\* when every name lookup and every property fetch succeeded.
C5_OrderPreservingSubsequence ==
    Augmenting =>
        /\ Len(augmented_data) = Len(source)
        /\ StrictlyIncreasing(source)
        /\ \A k \in DOMAIN augmented_data :
              /\ source[k] \in DOMAIN original
              /\ augmented_data[k].cas = original[source[k]].cas
        /\ (Responded /\ ~Failed) => response.body = augmented_data
        /\ (/\ Responded
            /\ \A i \in DOMAIN original :
                   nameOutcome[i] = "ok" /\ propOutcome[i] = "ok")
           => /\ response.status = 200
              /\ Len(response.body) = Len(original)
              /\ \A i \in DOMAIN original : response.body[i].cas = original[i].cas

C5_Witness ==
    /\ Augmenting /\ Responded /\ response.status = 200
    /\ Len(original) = 2
    /\ original[1].cas = original[2].cas
    /\ \A i \in DOMAIN original : nameOutcome[i] = "ok" /\ propOutcome[i] = "ok"
    /\ Len(response.body) = 2

\* C6: an empty request is answered with an empty list, without error and
\* without any upstream call.
C6_EmptyRequest ==
    (Augmenting /\ original = <<>>) =>
        /\ calls = <<>>
        /\ ~Failed
        /\ Responded => (response.status = 200 /\ response.body = <<>>)

C6_Witness ==
    Augmenting /\ original = <<>> /\ Responded /\ response.status = 200

C8_SummaryFailureIsGeneric ==
    (Summarising /\ Responded /\ response.status # 200) =>
        /\ IsServerError
        /\ \A k \in ExcKinds :
              \A j \in DOMAIN response.detail : response.detail[j] # ExcText(k)

NameCallDone(i) == nameOutcome[i] # "none"
InputFinished(i) == nameOutcome[i] = "status" \/ Emitted(i)

\* C9: per input at most one name lookup and at most one property lookup
\* is issued; the property lookup follows the completed name lookup of the
\* same input; no call for a later input precedes the end of an earlier one.
C9_NoRetrySequential ==
    Augmenting =>
        /\ \A a, b \in DOMAIN calls : a # b => calls[a] # calls[b]
        /\ \A b \in DOMAIN calls :
              /\ calls[b][1] \in {"name", "prop"}
              /\ calls[b][2] \in DOMAIN original
              /\ calls[b][1] = "prop" =>
                    /\ \E a \in 1 .. (b - 1) : calls[a] = <<"name", calls[b][2]>>
                    /\ NameCallDone(calls[b][2])
              /\ \A i \in 1 .. (calls[b][2] - 1) : InputFinished(i)

C9_Witness ==
    /\ Augmenting /\ Responded
    /\ calls = <<(<<"name", 1>>), (<<"name", 2>>), (<<"prop", 2>>)>>
    /\ nameOutcome[1] = "status"

\* C10 as stated: smiles is the canonical string when that is present,
\* otherwise the isomeric string, and null only when both are absent.
C10_AsStated ==
    (Augmenting /\ properties # <<>>) =>
        /\ Bag.CanonicalSMILES # None =>
              LastRecord.smiles = Bag.CanonicalSMILES
        /\ Bag.CanonicalSMILES = None =>
              LastRecord.smiles = Bag.IsomericSMILES
        /\ LastRecord.smiles = None =>
              (Bag.CanonicalSMILES = None /\ Bag.IsomericSMILES = None)

\* C10 amended: smiles is the canonical string when that is present and
\* non-empty, otherwise the isomeric string when present, otherwise null.
C10_CanonicalElseIsomeric ==
    (Augmenting /\ properties # <<>>) =>
        /\ augmented_data # <<>>
        /\ Bag.CanonicalSMILES \notin {None, Str("")} =>
              LastRecord.smiles = Bag.CanonicalSMILES
        /\ Bag.CanonicalSMILES \in {None, Str("")} =>
              LastRecord.smiles = Bag.IsomericSMILES

C10_Witness ==
    /\ Augmenting /\ Responded /\ response.status = 200
    /\ properties # <<>> /\ Bag = Omit(FullProps, "CanonicalSMILES")
    /\ response.body # <<>>
    /\ response.body[Len(response.body)].smiles = Str("[13C]=O")

====
